---- MODULE Spec2Model ----
(***************************************************************************)
(* Model of src/src/process_results.py: consolidate_jsons_to_mega_json and *)
(* process_mega_json_for_no_complete_prompt.                               *)
(*                                                                         *)
(* Log-probabilities are integers (hundredths of a nat); math.exp is the   *)
(* injective tag Exp, so two probabilities are equal exactly when their    *)
(* summed log-probabilities are.  Floating-point rounding is not modelled. *)
(***************************************************************************)
EXTENDS Integers, Sequences, FiniteSets, TLC

VARIABLES
    call,          \* which function the caller invoked
    pc,            \* position in that function: a line label, "done" or "raised"
    err,           \* type of the exception that left the function, "" if none
    \* consolidate_jsons_to_mega_json
    open_folder,   \* the matching files of the folder, in traversal order
    save_file,     \* the file at save_file_path
    saves,         \* number of save_json calls made
    ret,           \* the returned count
    \* process_mega_json_for_no_complete_prompt
    archive,       \* content of the file at path_to_megajson
    tail_n,        \* completion_is_last_n_tokens_of_echoed_prompt
    filter,        \* filter_by_prompt_descriptor
    mega,          \* the deserialized archive, in memory
    i,             \* position of the for loop in mega (1-based)
    results,       \* column name -> list
    added_prompt_fill_fields_to_results_dict,
    df_results     \* the returned table (meaningful when pc = "done")

vars == <<call, pc, err, open_folder, save_file, saves, ret, archive, tail_n,
          filter, mega, i, results, added_prompt_fill_fields_to_results_dict,
          df_results>>

consolidate_vars == <<open_folder, save_file, saves, ret>>
flatten_vars == <<archive, tail_n, filter, mega, i, results,
                  added_prompt_fill_fields_to_results_dict, df_results>>

----------------------------------------------------------------------------
(* Bounds *)

MaxRecords == 2
MaxTail == 2
MaxFiles == 3

----------------------------------------------------------------------------
(* Python built-ins used by the code *)

Range(s) == {s[n] : n \in DOMAIN s}

\* list.index(x): 0-based position of the first element equal to x,
\* -1 standing for ValueError.
ListIndex(s, x) ==
    IF \E n \in DOMAIN s : s[n] = x
    THEN (CHOOSE n \in DOMAIN s : s[n] = x /\ \A m \in 1..(n - 1) : s[m] # x) - 1
    ELSE -1

\* s[:n] for 0 <= n
SliceTo(s, n) == SubSeq(s, 1, IF n < Len(s) THEN n ELSE Len(s))

RECURSIVE Reverse(_)
Reverse(s) == IF s = <<>> THEN <<>> ELSE Append(Reverse(Tail(s)), Head(s))

\* sep.join(s) for a list of strings
RECURSIVE Join(_, _)
Join(sep, s) ==
    IF s = <<>> THEN ""
    ELSE IF Len(s) = 1 THEN s[1]
    ELSE s[1] \o sep \o Join(sep, Tail(s))

\* math.exp
Exp(x) == <<"exp", x>>

----------------------------------------------------------------------------
(* Input data: result records as the experiments write them *)

Res(idx, descriptor, values, full_input, engine, echo, max_tokens, logprobs) ==
    [input  |-> [prompt_descriptor |-> descriptor,
                 prompt |-> [index |-> idx, values |-> values],
                 full_input |-> full_input],
     model  |-> [engine |-> engine, echo |-> echo, max_tokens |-> max_tokens],
     output |-> [choices |-> << [logprobs |-> logprobs] >>]]

Descriptors == {"accept", "reject"}

\* An echoed prompt followed (when max_tokens # 0) by generated text.
TraceCat ==
    [tokens |-> <<"The", " cat", " sat">>,
     token_logprobs |-> <<-10, -20, -5>>,
     text_offset |-> <<0, 3, 7>>]
TraceHi ==
    [tokens |-> <<"Hi">>, token_logprobs |-> <<-7>>, text_offset |-> <<0>>]
\* An empty token repeats an offset.
TraceDup ==
    [tokens |-> <<"The", "", " cat">>,
     token_logprobs |-> <<-10, -1, -20>>,
     text_offset |-> <<0, 3, 3>>]

\* [idx, full_input, max_tokens, logprobs]
Runs ==
    { [idx |-> 1, full_input |-> "The cat sat", max_tokens |-> 0, logprobs |-> TraceCat],
      [idx |-> 2, full_input |-> "Hi",          max_tokens |-> 0, logprobs |-> TraceHi],
      [idx |-> 3, full_input |-> "The cat",     max_tokens |-> 1, logprobs |-> TraceCat],
      [idx |-> 4, full_input |-> "The ca",      max_tokens |-> 1, logprobs |-> TraceCat],
      [idx |-> 5, full_input |-> "The",         max_tokens |-> 1, logprobs |-> TraceDup] }

\* values mappings, as lists of (key, value) in the mapping's iteration order
ValuesName == << <<"name", "Ann">> >>
ValuesOther ==
    { [idx |-> 6, values |-> <<>>],
      [idx |-> 7, values |-> << <<"name", "Bob">>, <<"offer", "five">> >>],
      [idx |-> 8, values |-> << <<"index", 9>> >>] }

Records ==
    {Res(r.idx, d, ValuesName, r.full_input, "ada", TRUE, r.max_tokens, r.logprobs) :
        d \in Descriptors, r \in Runs}
    \cup
    {Res(v.idx, d, v.values, "The cat sat", "davinci", TRUE, 0, TraceCat) :
        d \in Descriptors, v \in ValuesOther}
    \cup
    {Res(0, d, ValuesName, "The cat sat", "davinci", FALSE, 0, TraceCat) :
        d \in Descriptors}

Archives == UNION {[1..n -> Records] : n \in 0..MaxRecords}

NoFilter == [is_none |-> TRUE, value |-> ""]
Filters == {NoFilter, [is_none |-> FALSE, value |-> "accept"]}

\* Files of the source folder: a file deserializes to its contents or not at all.
Files == {[ok |-> TRUE, contents |-> "r1"], [ok |-> TRUE, contents |-> "r2"],
          [ok |-> FALSE, contents |-> ""]}
Folders == UNION {[1..n -> Files] : n \in 0..MaxFiles}
SaveFiles == {[exists |-> FALSE, content |-> <<>>],
              [exists |-> TRUE, content |-> <<"old">>]}

EmptyResults == [index |-> <<>>, engine |-> <<>>, tokens |-> <<>>, probability |-> <<>>]

----------------------------------------------------------------------------
(* consolidate_jsons_to_mega_json *)

\* pathlib.Path.glob returns a generator over the matching paths.
Glob(folder) == [kind |-> "generator", items |-> folder]

\* len() is defined for lists, not for generators.
HasLen(x) == x.kind = "list"

\* The for loop of lines 28-30: load_json raises on a file that does not
\* deserialize, and the loop stops there.
RECURSIVE LoadAll(_, _)
LoadAll(items, mega_list) ==
    IF items = <<>> THEN [ok |-> TRUE, mega |-> mega_list]
    ELSE IF ~Head(items).ok THEN [ok |-> FALSE, mega |-> mega_list]
    ELSE LoadAll(Tail(items), Append(mega_list, Head(items).contents))

ConsolidateBody(list_of_data_files, old_file) ==
    IF ~HasLen(list_of_data_files)
    THEN \* line 26: len(list_of_data_files) raises
         [err |-> "TypeError", file |-> old_file, saves |-> 0, ret |-> 0]
    ELSE LET loaded == LoadAll(list_of_data_files.items, <<>>) IN
         IF ~loaded.ok
         THEN [err |-> "JSONDecodeError", file |-> old_file, saves |-> 0, ret |-> 0]
         ELSE [err |-> "",
               file |-> [exists |-> TRUE, content |-> loaded.mega],
               saves |-> 1,
               ret |-> Len(list_of_data_files.items)]

consolidate_jsons_to_mega_json ==
    /\ call = "consolidate"
    /\ pc = "start"
    /\ LET out == ConsolidateBody(Glob(open_folder), save_file) IN
        /\ save_file' = out.file
        /\ saves' = out.saves
        /\ ret' = out.ret
        /\ err' = out.err
        /\ pc' = IF out.err = "" THEN "done" ELSE "raised"
    /\ UNCHANGED <<call, open_folder>>
    /\ UNCHANGED flatten_vars

----------------------------------------------------------------------------
(* process_mega_json_for_no_complete_prompt *)

\* lines 69-73
LoadMega ==
    /\ call = "flatten"
    /\ pc = "start"
    /\ results' = EmptyResults
    /\ added_prompt_fill_fields_to_results_dict' = FALSE
    /\ mega' = archive
    /\ i' = 1
    /\ pc' = "loop"
    /\ UNCHANGED <<call, err, archive, tail_n, filter, df_results>>
    /\ UNCHANGED consolidate_vars

\* Mutant of Skipped: the comparison inverted.
Skipped_Inverted(res, f) ==
    (~f.is_none) /\ (res.input.prompt_descriptor = f.value)

\* lines 78-80: the condition of the continue
Skipped(res, f) ==
    (~f.is_none) /\ (res.input.prompt_descriptor # f.value)

\* lines 75-81
FilterSkip ==
    /\ call = "flatten"
    /\ pc = "loop"
    /\ i <= Len(mega)
    /\ Skipped(mega[i], filter)
    /\ i' = i + 1
    /\ UNCHANGED <<call, pc, err, archive, tail_n, filter, mega, results,
                   added_prompt_fill_fields_to_results_dict, df_results>>
    /\ UNCHANGED consolidate_vars

\* lines 89-90: results[k] = [] for every key of values
AddFields(values, r) ==
    LET keys == {p[1] : p \in Range(values)} IN
    [k \in DOMAIN r \cup keys |-> IF k \in keys THEN <<>> ELSE r[k]]

\* Mutant of AppendValues: a key that is no column is passed over.
RECURSIVE AppendValues_SkipUnknown(_, _)
AppendValues_SkipUnknown(values, r) ==
    IF values = <<>> THEN [ok |-> TRUE, results |-> r]
    ELSE LET k == Head(values)[1]
             v == Head(values)[2]
         IN IF k \notin DOMAIN r
            THEN AppendValues_SkipUnknown(Tail(values), r)
            ELSE AppendValues_SkipUnknown(Tail(values), [r EXCEPT ![k] = Append(@, v)])

\* lines 95-96: results[k].append(v), KeyError on a k that is no column
RECURSIVE AppendValues(_, _)
AppendValues(values, r) ==
    IF values = <<>> THEN [ok |-> TRUE, results |-> r]
    ELSE LET k == Head(values)[1]
             v == Head(values)[2]
         IN IF k \notin DOMAIN r
            THEN [ok |-> FALSE, results |-> r]
            ELSE AppendValues(Tail(values), [r EXCEPT ![k] = Append(@, v)])

\* Mutant of Populate: the columns of values are created anew on every record.
Populate_AlwaysAddFields(res, r, added) ==
    LET r1 == [r EXCEPT !["index"] = Append(@, res.input.prompt.index),
                        !["engine"] = Append(@, res.model.engine)]
        r2 == AddFields(res.input.prompt.values, r1)
    IN AppendValues(res.input.prompt.values, r2)

\* lines 84-96 on one record
Populate(res, r, added) ==
    LET r1 == [r EXCEPT !["index"] = Append(@, res.input.prompt.index),
                        !["engine"] = Append(@, res.model.engine)]
        r2 == IF ~added THEN AddFields(res.input.prompt.values, r1) ELSE r1
    IN AppendValues(res.input.prompt.values, r2)

PopulateFields ==
    /\ call = "flatten"
    /\ pc = "loop"
    /\ i <= Len(mega)
    /\ ~Skipped(mega[i], filter)
    /\ LET out == Populate(mega[i], results, added_prompt_fill_fields_to_results_dict) IN
        /\ results' = out.results
        /\ added_prompt_fill_fields_to_results_dict' = TRUE
        /\ pc' = IF out.ok THEN "echo" ELSE "raised"
        /\ err' = IF out.ok THEN err ELSE "KeyError"
    /\ UNCHANGED <<call, archive, tail_n, filter, mega, i, df_results>>
    /\ UNCHANGED consolidate_vars

\* Mutant of EchoMissing: the echo requirement is not checked.
EchoMissing_Ignored(res) == FALSE

\* line 99
EchoMissing(res) == ~res.model.echo

\* lines 99-102
CheckEcho ==
    /\ call = "flatten"
    /\ pc = "echo"
    /\ pc' = IF EchoMissing(mega[i]) THEN "raised" ELSE "logprobs"
    /\ err' = IF EchoMissing(mega[i]) THEN "Exception" ELSE err
    /\ UNCHANGED <<call, archive, tail_n, filter, mega, i, results,
                   added_prompt_fill_fields_to_results_dict, df_results>>
    /\ UNCHANGED consolidate_vars

\* Mutant of EchoLogprobs: the cut keeps the token at the offset.
EchoLogprobs_OffByOne(res) ==
    LET choice == res.output.choices[1] IN
    IF res.model.max_tokens = 0
    THEN [ok |-> TRUE, value |-> choice.logprobs]
    ELSE LET len_input == Len(res.input.full_input)
             slicer == ListIndex(choice.logprobs.text_offset, len_input)
         IN IF slicer = -1
            THEN [ok |-> FALSE, value |-> choice.logprobs]
            ELSE [ok |-> TRUE,
                  value |-> [tokens |-> SliceTo(choice.logprobs.tokens, slicer + 1),
                             token_logprobs |->
                                 SliceTo(choice.logprobs.token_logprobs, slicer + 1)]]

\* Mutant of EchoLogprobs: an offset that is not found leaves the sequences whole.
EchoLogprobs_Fallback(res) ==
    LET choice == res.output.choices[1] IN
    IF res.model.max_tokens = 0
    THEN [ok |-> TRUE, value |-> choice.logprobs]
    ELSE LET len_input == Len(res.input.full_input)
             slicer == ListIndex(choice.logprobs.text_offset, len_input)
         IN IF slicer = -1
            THEN [ok |-> TRUE, value |-> choice.logprobs]
            ELSE [ok |-> TRUE,
                  value |-> [tokens |-> SliceTo(choice.logprobs.tokens, slicer),
                             token_logprobs |->
                                 SliceTo(choice.logprobs.token_logprobs, slicer)]]

\* lines 104-119: the value assigned to res["output"]["echo_logprobs"],
\* ValueError when text_offset.index(len_input) finds nothing
EchoLogprobs(res) ==
    LET choice == res.output.choices[1] IN
    IF res.model.max_tokens = 0
    THEN [ok |-> TRUE, value |-> choice.logprobs]
    ELSE LET len_input == Len(res.input.full_input)
             slicer == ListIndex(choice.logprobs.text_offset, len_input)
         IN IF slicer = -1
            THEN [ok |-> FALSE, value |-> choice.logprobs]
            ELSE [ok |-> TRUE,
                  value |-> [tokens |-> SliceTo(choice.logprobs.tokens, slicer),
                             token_logprobs |->
                                 SliceTo(choice.logprobs.token_logprobs, slicer)]]

\* Mutant of StoreEchoLogprobs: the choice's logprobs are overwritten too.
StoreEchoLogprobs_InPlace(res, value) ==
    [res EXCEPT !.output =
        ("echo_logprobs" :> value) @@ [@ EXCEPT !.choices[1].logprobs = value]]

\* lines 108 and 116: res["output"]["echo_logprobs"] = value
StoreEchoLogprobs(res, value) ==
    [res EXCEPT !.output = ("echo_logprobs" :> value) @@ @]

ExtractEchoLogprobs ==
    /\ call = "flatten"
    /\ pc = "logprobs"
    /\ LET out == EchoLogprobs(mega[i]) IN
        IF out.ok
        THEN /\ mega' = [mega EXCEPT ![i] = StoreEchoLogprobs(@, out.value)]
             /\ pc' = "tail"
             /\ err' = err
        ELSE /\ mega' = mega
             /\ pc' = "raised"
             /\ err' = "ValueError"
    /\ UNCHANGED <<call, archive, tail_n, filter, i, results,
                   added_prompt_fill_fields_to_results_dict, df_results>>
    /\ UNCHANGED consolidate_vars

\* lines 126-128: the loop over range(1, n + 1); tokens[-k] and
\* token_logprobs[-k] raise IndexError past the start of the list
RECURSIVE GatherLoop(_, _, _, _, _, _)
GatherLoop(tokens, token_logprobs, n, k, tokens_list, logprob_sum) ==
    IF k > n
    THEN [ok |-> TRUE, tokens_list |-> tokens_list, logprob_sum |-> logprob_sum]
    ELSE IF k > Len(tokens) \/ k > Len(token_logprobs)
    THEN [ok |-> FALSE, tokens_list |-> tokens_list, logprob_sum |-> logprob_sum]
    ELSE GatherLoop(tokens, token_logprobs, n, k + 1,
                    Append(tokens_list, tokens[Len(tokens) - k + 1]),
                    logprob_sum + token_logprobs[Len(token_logprobs) - k + 1])

\* Mutant of Completion: the collected tokens are not put back in forward order.
Completion_NoReverse(echo_logprobs, n) ==
    LET out == GatherLoop(echo_logprobs.tokens, echo_logprobs.token_logprobs,
                          n, 1, <<>>, 0)
    IN [ok |-> out.ok,
        tokens |-> Join("-", out.tokens_list),
        probability |-> Exp(out.logprob_sum)]

\* lines 122-131: the values appended to the tokens and probability columns
Completion(echo_logprobs, n) ==
    LET out == GatherLoop(echo_logprobs.tokens, echo_logprobs.token_logprobs,
                          n, 1, <<>>, 0)
    IN [ok |-> out.ok,
        tokens |-> Join("-", Reverse(out.tokens_list)),
        probability |-> Exp(out.logprob_sum)]

GatherTail ==
    /\ call = "flatten"
    /\ pc = "tail"
    /\ LET out == Completion(mega[i].output.echo_logprobs, tail_n) IN
        IF out.ok
        THEN /\ results' = [results EXCEPT
                               !["tokens"] = Append(@, out.tokens),
                               !["probability"] = Append(@, out.probability)]
             /\ i' = i + 1
             /\ pc' = "loop"
             /\ err' = err
        ELSE /\ results' = results
             /\ i' = i
             /\ pc' = "raised"
             /\ err' = "IndexError"
    /\ UNCHANGED <<call, archive, tail_n, filter, mega,
                   added_prompt_fill_fields_to_results_dict, df_results>>
    /\ UNCHANGED consolidate_vars

\* pd.DataFrame(dict of lists) raises ValueError unless all lists have one length.
DataFrameOk(r) == \A a, b \in DOMAIN r : Len(r[a]) = Len(r[b])

\* lines 133-135
BuildTable ==
    /\ call = "flatten"
    /\ pc = "loop"
    /\ i > Len(mega)
    /\ IF DataFrameOk(results)
       THEN /\ df_results' = results
            /\ pc' = "done"
            /\ err' = err
       ELSE /\ df_results' = df_results
            /\ pc' = "raised"
            /\ err' = "ValueError"
    /\ UNCHANGED <<call, archive, tail_n, filter, mega, i, results,
                   added_prompt_fill_fields_to_results_dict>>
    /\ UNCHANGED consolidate_vars

----------------------------------------------------------------------------
(* Specification *)

InitConsolidate ==
    /\ call = "consolidate"
    /\ open_folder \in Folders
    /\ save_file \in SaveFiles
    /\ saves = 0
    /\ ret = 0
    /\ archive = <<>>
    /\ tail_n = 1
    /\ filter = NoFilter

InitFlatten ==
    /\ call = "flatten"
    /\ open_folder = <<>>
    /\ save_file = [exists |-> FALSE, content |-> <<>>]
    /\ saves = 0
    /\ ret = 0
    /\ archive \in Archives
    /\ tail_n \in 1..MaxTail
    /\ filter \in Filters

Init ==
    /\ pc = "start"
    /\ err = ""
    /\ mega = <<>>
    /\ i = 1
    /\ results = EmptyResults
    /\ added_prompt_fill_fields_to_results_dict = FALSE
    /\ df_results = EmptyResults
    /\ (InitConsolidate \/ InitFlatten)

Next ==
    \/ consolidate_jsons_to_mega_json
    \/ LoadMega
    \/ FilterSkip
    \/ PopulateFields
    \/ CheckEcho
    \/ ExtractEchoLogprobs
    \/ GatherTail
    \/ BuildTable

Spec == Init /\ [][Next]_vars

----------------------------------------------------------------------------
(* Vocabulary of the properties *)

BaseColumns == {"index", "engine", "tokens", "probability"}

Keys(res) == {p[1] : p \in Range(res.input.prompt.values)}

\* The record is retained by the filter.
KeptRec(res) == filter.is_none \/ res.input.prompt_descriptor = filter.value
Kept(j) == j \in DOMAIN archive /\ KeptRec(archive[j])

\* The retained records among the first n of the archive, in archive order.
KeptUpTo(n) == SelectSeq(SubSeq(archive, 1, n), KeptRec)

FirstKept == CHOOSE j \in DOMAIN archive : Kept(j) /\ \A m \in 1..(j - 1) : ~Kept(m)

Last(s) == s[Len(s)]

Logprobs(res) == res.output.choices[1].logprobs

\* s[-n:]
LastSlice(s, n) == IF n >= Len(s) THEN s ELSE SubSeq(s, Len(s) - n + 1, Len(s))

RECURSIVE SumSeq(_)
SumSeq(s) == IF s = <<>> THEN 0 ELSE Head(s) + SumSeq(Tail(s))

\* A retained record has just been fully processed: its row is the last one.
JustProcessed ==
    /\ call = "flatten"
    /\ pc = "loop"
    /\ i > 1
    /\ Kept(i - 1)

\* An exception left flatten while it was processing record i.
RaisedAtRecord ==
    /\ call = "flatten"
    /\ pc = "raised"
    /\ i \in DOMAIN archive

----------------------------------------------------------------------------
(* consolidate *)

AllDeserialize == \A n \in DOMAIN open_folder : open_folder[n].ok

Count(s, x) == Cardinality({n \in DOMAIN s : s[n] = x})

IsPermutation(a, b) ==
    /\ Len(a) = Len(b)
    /\ \A x \in Range(a) \cup Range(b) : Count(a, x) = Count(b, x)

FolderContents == [n \in DOMAIN open_folder |-> open_folder[n].contents]

\* C1: once consolidate has run on a folder of N files that all deserialize,
\* it has returned N and the archive at the destination holds exactly N
\* records, a permutation of the files' contents.
C1_ReturnsCountAndWritesAll ==
    (call = "consolidate" /\ pc # "start" /\ AllDeserialize) =>
        /\ pc = "done"
        /\ ret = Len(open_folder)
        /\ save_file.exists
        /\ IsPermutation(save_file.content, FolderContents)

\* C7: once consolidate has run, either every file deserialized and the
\* archive was written exactly once with all of them, or a file failed to
\* deserialize, that failure reached the caller and nothing was written.
C7_WrittenOnceAfterAllLoaded ==
    (call = "consolidate" /\ pc # "start") =>
        IF AllDeserialize
        THEN /\ pc = "done"
             /\ saves = 1
             /\ IsPermutation(save_file.content, FolderContents)
        ELSE /\ pc = "raised"
             /\ err = "JSONDecodeError"
             /\ saves = 0

----------------------------------------------------------------------------
(* flatten: the completion of a record *)

AllEchoNoGeneration ==
    \A j \in DOMAIN archive :
        archive[j].model.echo /\ archive[j].model.max_tokens = 0

\* The row of the record just processed holds the last tail_n tokens joined
\* with "-" and exp of the sum of the last tail_n log-probabilities.
RowIsLastSlice ==
    LET lp == Logprobs(archive[i - 1]) IN
    /\ Last(results["tokens"]) = Join("-", LastSlice(lp.tokens, tail_n))
    /\ Last(results["probability"]) = Exp(SumSeq(LastSlice(lp.token_logprobs, tail_n)))

\* C2 as stated: on an archive of echoed records without generated text, for
\* every tail length, the backward loop yields for every retained record what
\* slicing the last tail_n elements yields; it never raises.
C2_LoopIsSliceForEveryTail ==
    (call = "flatten" /\ AllEchoNoGeneration) =>
        /\ JustProcessed => RowIsLastSlice
        /\ RaisedAtRecord => err # "IndexError"

\* C2 amended: the loop yields the slice's values for every retained record
\* with at least tail_n tokens and log-probabilities; it raises an index
\* error exactly on a record with fewer.
C2_LoopIsSliceWithinLength ==
    (call = "flatten" /\ AllEchoNoGeneration) =>
        /\ JustProcessed =>
              /\ Len(Logprobs(archive[i - 1]).tokens) >= tail_n
              /\ RowIsLastSlice
        /\ (RaisedAtRecord /\ err = "IndexError") =>
              Len(Logprobs(archive[i]).tokens) < tail_n
        /\ (pc = "tail" /\ Len(Logprobs(archive[i]).tokens) < tail_n) =>
              ~Completion(mega[i].output.echo_logprobs, tail_n).ok

C2_Witness ==
    /\ AllEchoNoGeneration
    /\ JustProcessed
    /\ tail_n >= 2
    /\ Len(Logprobs(archive[i - 1]).tokens) > tail_n

\* The text_offset sequence holds the length of full_input.
OffsetFound(res) ==
    \E n \in DOMAIN Logprobs(res).text_offset :
        Logprobs(res).text_offset[n] = Len(res.input.full_input)

Salvageable(res) == res.model.max_tokens # 0 /\ OffsetFound(res)

\* The same record run with max_tokens = 0 and with tokens and token_logprobs
\* cut to the entries before the position of the offset.
PreTruncated(res) ==
    LET off == Logprobs(res).text_offset
        p == CHOOSE n \in DOMAIN off :
                 /\ off[n] = Len(res.input.full_input)
                 /\ \A m \in 1..(n - 1) : off[m] # Len(res.input.full_input)
    IN [res EXCEPT
            !.model.max_tokens = 0,
            !.output.choices[1].logprobs.tokens = SubSeq(@, 1, p - 1),
            !.output.choices[1].logprobs.token_logprobs = SubSeq(@, 1, p - 1)]

ReferenceRow(res) == Completion(EchoLogprobs(PreTruncated(res)).value, tail_n)

\* C4: a salvaged record gets the tokens and probability that the same record
\* gets with max_tokens = 0 and pre-truncated sequences, and fails in the tail
\* loop exactly when that record does.
C4_SalvageIsPreTruncation ==
    /\ (JustProcessed /\ Salvageable(archive[i - 1])) =>
          /\ ReferenceRow(archive[i - 1]).ok
          /\ Last(results["tokens"]) = ReferenceRow(archive[i - 1]).tokens
          /\ Last(results["probability"]) = ReferenceRow(archive[i - 1]).probability
    /\ (RaisedAtRecord /\ err = "IndexError" /\ Salvageable(archive[i])) =>
          ~ReferenceRow(archive[i]).ok
    /\ (call = "flatten" /\ pc = "tail" /\ Salvageable(archive[i])) =>
          /\ mega[i].output.echo_logprobs.tokens = Logprobs(PreTruncated(archive[i])).tokens
          /\ mega[i].output.echo_logprobs.token_logprobs =
                 Logprobs(PreTruncated(archive[i])).token_logprobs

C4_Witness ==
    /\ JustProcessed
    /\ Salvageable(archive[i - 1])
    /\ tail_n >= 2

Unsalvageable(res) ==
    res.model.echo /\ res.model.max_tokens # 0 /\ ~OffsetFound(res)

\* C6: a retained echoed record with generated text whose text_offset lacks
\* the length of full_input is never got past: flatten returns no table, the
\* record never reaches the tail loop with untruncated sequences, and the
\* offset lookup raises the value-not-found error.
C6_OffsetNotFoundIsFatal ==
    call = "flatten" =>
        /\ \A j \in DOMAIN archive :
              (Kept(j) /\ Unsalvageable(archive[j])) =>
                  /\ pc # "done"
                  /\ i <= j
                  /\ (i = j) =>
                        \/ pc \in {"start", "loop", "echo", "logprobs"}
                        \/ pc = "raised" /\ err \in {"KeyError", "ValueError"}
        /\ (RaisedAtRecord /\ err = "ValueError") => Unsalvageable(archive[i])
        /\ (pc = "logprobs" /\ Unsalvageable(archive[i])) => ~EchoLogprobs(mega[i]).ok

C6_Witness ==
    /\ RaisedAtRecord
    /\ err = "ValueError"
    /\ Unsalvageable(archive[i])
    /\ i > 1

----------------------------------------------------------------------------
(* flatten: the filter and the echo requirement *)

Column(f(_), recs) == [n \in DOMAIN recs |-> f(recs[n])]
IndexOf(res) == res.input.prompt.index
EngineOf(res) == res.model.engine

NoIndexKey == \A j \in DOMAIN archive : Kept(j) => "index" \notin Keys(archive[j])

\* C3: when flatten completes under a filter F, every column of the table has
\* as many rows as the archive has records with descriptor F, and the rows
\* are those records', in archive order.
C3_RowsAreTheMatchingRecords ==
    (call = "flatten" /\ pc = "done" /\ ~filter.is_none) =>
        LET matching == SelectSeq(archive,
                            LAMBDA r : r.input.prompt_descriptor = filter.value)
        IN /\ \A c \in DOMAIN df_results : Len(df_results[c]) = Len(matching)
           /\ df_results["engine"] = Column(EngineOf, matching)
           /\ NoIndexKey => df_results["index"] = Column(IndexOf, matching)

C3_Witness ==
    /\ call = "flatten"
    /\ pc = "done"
    /\ ~filter.is_none
    /\ Len(df_results["engine"]) >= 1
    /\ Len(df_results["engine"]) < Len(archive)

\* C5 as stated: with or without a filter, an archive that holds a record
\* with echo = false never yields a table.
C5_AnyEchoFalseIsFatal ==
    (call = "flatten" /\ \E j \in DOMAIN archive : ~archive[j].model.echo) =>
        pc # "done"

\* C5 amended: an archive that holds a record with echo = false which the
\* filter retains never yields a table, and the echo exception is raised
\* only on such a record.
C5_KeptEchoFalseIsFatal ==
    call = "flatten" =>
        /\ (\E j \in DOMAIN archive : Kept(j) /\ ~archive[j].model.echo) => pc # "done"
        /\ \A j \in DOMAIN archive :
              (Kept(j) /\ ~archive[j].model.echo) =>
                  /\ i <= j
                  /\ (i = j) => pc \in {"start", "loop", "echo", "raised"}
        /\ (pc = "raised" /\ err = "Exception") =>
              (Kept(i) /\ ~archive[i].model.echo)

C5_Witness ==
    /\ RaisedAtRecord
    /\ err = "Exception"
    /\ ~filter.is_none
    /\ i > 1
    /\ Kept(i - 1)

----------------------------------------------------------------------------
(* flatten: the columns of the values mapping *)

\* C8 as stated: processing never gets past a retained record whose values
\* key set differs from the first retained record's.
C8_DifferentKeySetRaises ==
    call = "flatten" =>
        \A j \in DOMAIN archive :
            (Kept(j) /\ Keys(archive[j]) # Keys(archive[FirstKept])) => i <= j

\* The record has a key that is no column: neither a key of the first
\* retained record nor one of the four fixed columns.
HasUnknownKey(j) ==
    /\ Kept(j)
    /\ \E k \in Keys(archive[j]) : k \notin Keys(archive[FirstKept]) \cup BaseColumns

\* C8 amended: processing never gets past a retained record with a key that
\* is no column, it raises key-not-found on it; key-not-found is raised on
\* no other record (a record that only lacks a key raises nothing).
C8_UnknownKeyRaises ==
    call = "flatten" =>
        /\ \A j \in DOMAIN archive :
              HasUnknownKey(j) =>
                  /\ i <= j
                  /\ (i = j) => (pc \in {"start", "loop"} \/ (pc = "raised" /\ err = "KeyError"))
        /\ (pc = "raised" /\ err = "KeyError") => HasUnknownKey(i)

C8_Witness ==
    /\ RaisedAtRecord
    /\ err = "KeyError"
    /\ HasUnknownKey(i)
    /\ i > 1

\* The retained records all have the key set of the first retained one.
SameKeySets ==
    \A j \in DOMAIN archive : Kept(j) => Keys(archive[j]) = Keys(archive[FirstKept])

\* Every column is as long as the number of retained records processed, and
\* index and engine hold those records' index and engine in archive order.
ColumnsInStep ==
    LET done == KeptUpTo(i - 1) IN
    /\ \A c \in DOMAIN results : Len(results[c]) = Len(done)
    /\ results["index"] = Column(IndexOf, done)
    /\ results["engine"] = Column(EngineOf, done)

\* C10 as stated: whatever the key names, if the retained records share one
\* values key set, the columns are in step after each processed record.
C10_ColumnsInStepAnyKeys ==
    (call = "flatten" /\ pc = "loop" /\ SameKeySets) => ColumnsInStep

\* C10 amended: the same, for key sets that name none of the fixed columns.
C10_ColumnsInStepFreshKeys ==
    (call = "flatten" /\ pc = "loop" /\ SameKeySets
        /\ \A j \in DOMAIN archive : Kept(j) => Keys(archive[j]) \cap BaseColumns = {})
    => ColumnsInStep

C10_Witness ==
    /\ call = "flatten"
    /\ pc = "loop"
    /\ SameKeySets
    /\ i = 3
    /\ Kept(1) /\ Kept(2)
    /\ Cardinality(Keys(archive[1])) = 2
    /\ archive[1] # archive[2]

----------------------------------------------------------------------------
(* flatten: the records in memory *)

\* C9 as stated: the records in memory stay as they were deserialized.
C9_RecordsUnchanged ==
    (call = "flatten" /\ pc # "start") => mega = archive

\* Record j has been through the assignment of lines 104-119.
Extracted(j) ==
    \/ j < i /\ Kept(j)
    \/ j = i /\ pc = "tail"
    \/ j = i /\ pc = "raised" /\ err = "IndexError"

\* C9 amended: flatten changes a record in one way only: it sets
\* output.echo_logprobs, to the choice's logprobs when max_tokens = 0 and to
\* the truncated tokens and token_logprobs otherwise. input, model and
\* output.choices stay as deserialized.
C9_OnlyEchoLogprobsAdded ==
    (call = "flatten" /\ pc # "start") =>
        /\ Len(mega) = Len(archive)
        /\ \A j \in DOMAIN archive :
              /\ mega[j].input = archive[j].input
              /\ mega[j].model = archive[j].model
              /\ mega[j].output.choices = archive[j].output.choices
              /\ DOMAIN mega[j].output =
                    IF Extracted(j) THEN {"choices", "echo_logprobs"} ELSE {"choices"}
              /\ (Extracted(j) /\ archive[j].model.max_tokens = 0) =>
                    mega[j].output.echo_logprobs = Logprobs(archive[j])
              /\ (Extracted(j) /\ archive[j].model.max_tokens # 0) =>
                    DOMAIN mega[j].output.echo_logprobs = {"tokens", "token_logprobs"}

C9_Witness ==
    /\ call = "flatten"
    /\ pc = "done"
    /\ \E j \in DOMAIN archive : Extracted(j) /\ archive[j].model.max_tokens # 0
    /\ \E j \in DOMAIN archive : Extracted(j) /\ archive[j].model.max_tokens = 0

====
